---- MODULE Spec2Model ----
(***************************************************************************)
(* Flashcard study application: the remote store (study_sets, flashcards,  *)
(* starred_flashcards), the data-access module (lib/supabase-server) and   *)
(* the study-session page controller (app/study-set/[id]/page.tsx).        *)
(***************************************************************************)
EXTENDS Integers, Sequences, FiniteSets, TLC

\* ---------------------------------------------------------------- bounds
MaxCards == 2       \* flashcard rows the store holds at most
MaxRows == 3        \* association rows per (user, flashcard) the model lets pile up
MaxInFlight == 2    \* toggleStar invocations in flight at once

\* ------------------------------------------------------- value universes
Users == {1, 2}
NoUser == 0                      \* userId === null
SetIds == {1, 2}
CardIds == 1..MaxCards
Positions == 0..(MaxCards - 1)
Undefined == "undefined"          \* is_starred left out
None == <<>>                      \* null / undefined where a row is expected

VARIABLES
    \* remote store
    study_sets,            \* set of rows [id, user_id, updated_at]
    flashcards,            \* set of rows [id, study_set_id, position]
    starred_flashcards,    \* [user, card] -> number of association rows (a bag)
    \* study-session controller (StudySetPage)
    studySetId,            \* route parameter params.id
    userId,                \* useState<string | null>(null)
    currentCardIndex,      \* useState(0)
    isFlipped,             \* useState(false)
    authPc,                \* checkAuth: "pending" | "done" | "no-user" | "threw"
    route,                 \* "page" | "/login"
    studySetQuery,         \* useQuery ['study-set', id]: [fetching, data]
    flashcardsQuery,       \* useQuery ['flashcards', id, userId]: [status, fetching, data]
    keyHandlerLen,         \* flashcards.length captured by the registered keydown closure
    mutations,             \* the toggleStar invocations in flight, oldest first
    \* dashboard controller (DashboardPage)
    dashboard,             \* [userId, authPc, route, query: [status, fetching, data]]
    \* observation of calls, read by the properties only
    hist,                  \* the latest consecutive controller operations
    pair,                  \* two toggleStar calls run one after the other
    ret                    \* latest direct call of the data-access module

store == <<study_sets, flashcards, starred_flashcards>>
ctl == <<studySetId, userId, currentCardIndex, isFlipped, authPc, route,
         studySetQuery, flashcardsQuery, keyHandlerLen>>
vars == <<study_sets, flashcards, starred_flashcards, studySetId, userId,
          currentCardIndex, isFlipped, authPc, route, studySetQuery,
          flashcardsQuery, keyHandlerLen, mutations, dashboard, hist, pair, ret>>

\* ------------------------------------------------------------ data access
\* orders by position, descending
RECURSIVE OrderByPositionDescending(_)
OrderByPositionDescending(rows) ==
    IF rows = {} THEN <<>>
    ELSE LET first == CHOOSE r \in rows : \A q \in rows : r.position >= q.position
         IN <<first>> \o OrderByPositionDescending(rows \ {first})

\* rows of `flashcards` with study_set_id = sid, as .order('position') returns them
RECURSIVE OrderByPosition(_)
OrderByPosition(rows) ==
    IF rows = {} THEN <<>>
    ELSE LET first == CHOOSE r \in rows :
                        \A q \in rows : r.position < q.position
                                        \/ (r.position = q.position /\ r.id <= q.id)
         IN <<first>> \o OrderByPosition(rows \ {first})

SelectFlashcards(sid) == {r \in flashcards : r.study_set_id = sid}

\* .select('*', {count: 'exact', head: true}) followed by `count || 0`
FlashcardCount(sid, failed) ==
    IF failed THEN 0 ELSE Cardinality(SelectFlashcards(sid))

\* never consults the starred rows
getFlashcardsNeverStarred(sid, uid, failRows, failStars) ==
    IF failRows THEN <<>>
    ELSE LET rows == OrderByPosition(SelectFlashcards(sid))
         IN [i \in 1..Len(rows) |->
                [id |-> rows[i].id,
                 study_set_id |-> rows[i].study_set_id,
                 position |-> rows[i].position,
                 is_starred |-> IF uid = NoUser THEN Undefined ELSE "false"]]

\* getFlashcards(studySetId, userId?): failRows / failStars are the outcomes of
\* its two store calls
getFlashcards(sid, uid, failRows, failStars) ==
    IF failRows THEN <<>>
    ELSE LET rows == OrderByPosition(SelectFlashcards(sid))
             starredIds == IF failStars THEN {}
                           ELSE {c \in CardIds : uid \in Users /\ starred_flashcards[uid, c] > 0}
         IN [i \in 1..Len(rows) |->
                [id |-> rows[i].id,
                 study_set_id |-> rows[i].study_set_id,
                 position |-> rows[i].position,
                 is_starred |-> IF uid = NoUser THEN Undefined
                                ELSE IF rows[i].id \in starredIds THEN "true"
                                ELSE "false"]]

\* getStudySet(studySetId): .single() gives a row only when exactly one matches
getStudySet(sid, failRow, failCount) ==
    LET rows == {s \in study_sets : s.id = sid}
    IN IF failRow \/ Cardinality(rows) # 1 THEN None
       ELSE LET s == CHOOSE r \in rows : TRUE
            IN <<[id |-> s.id, user_id |-> s.user_id, updated_at |-> s.updated_at,
                  flashcard_count |-> FlashcardCount(s.id, failCount)]>>

\* rows of `study_sets` as .order('updated_at', {ascending: false}) returns them
RECURSIVE OrderByUpdatedDesc(_)
OrderByUpdatedDesc(rows) ==
    IF rows = {} THEN <<>>
    ELSE LET first == CHOOSE r \in rows :
                        \A q \in rows : r.updated_at > q.updated_at
                                        \/ (r.updated_at = q.updated_at /\ r.id <= q.id)
         IN <<first>> \o OrderByUpdatedDesc(rows \ {first})

\* getStudySets(userId): failQuery is the outcome of the study-set query,
\* failCounts the sets whose count query fails
getStudySets(uid, failQuery, failCounts) ==
    IF failQuery THEN <<>>
    ELSE LET rows == OrderByUpdatedDesc({s \in study_sets : s.user_id = uid})
         IN [i \in 1..Len(rows) |->
                [id |-> rows[i].id, user_id |-> rows[i].user_id,
                 updated_at |-> rows[i].updated_at,
                 flashcard_count |-> FlashcardCount(rows[i].id, rows[i].id \in failCounts)]]

\* ------------------------------------------------------------- controller
\* const { data: flashcards = [] } = useQuery(...)
Flashcards == IF flashcardsQuery.status = "success" THEN flashcardsQuery.data ELSE <<>>
cardCount == Len(Flashcards)
isLoading == flashcardsQuery.status = "pending" /\ flashcardsQuery.fetching

\* the render gating, and flashcards[currentCardIndex] of the last return
Rendered ==
    IF isLoading \/ userId = NoUser THEN "loading"
    ELSE IF studySetQuery.data = None THEN "not-found"
    ELSE IF cardCount = 0 THEN "empty"
    ELSE IF currentCardIndex >= cardCount THEN "render-error"
    ELSE "browsing"

\* what the browser shows: the page as rendered, until router.push left it
View == IF route # "page" THEN "left" ELSE Rendered

\* the component is mounted and its listeners are registered
Mounted == View \notin {"left", "render-error"}

\* a modulus off by one
NextIndexOffByOne(prev, len) == (prev + 1) % (len + 1)

NextIndex(prev, len) == (prev + 1) % len
PrevIndex(prev, len) == (prev - 1 + len) % len

\* the keydown effect re-registers its closure when a dependency changed
KeyHandlerAfter(idx, flp) ==
    IF idx # currentCardIndex \/ flp # isFlipped THEN cardCount ELSE keyHandlerLen

\* observation switched off: the specification does not record calls
HistOff == <<[op |-> "off"]>>
PairOff == [stage |-> -1]
RetOff == [op |-> "off"]

\* what a controller operation may touch, as it was before the operation
Snapshot == [currentCardIndex |-> currentCardIndex, isFlipped |-> isFlipped,
             flashcards |-> Flashcards, userId |-> userId, store |-> store,
             inFlight |-> <<mutations, studySetQuery.fetching, flashcardsQuery.fetching>>]

\* the operations remembered: the latest MaxCards + 1 of an unbroken run, each
\* with the list length its closure read and the state it started from
Remember(op, len) ==
    LET e == [op |-> op, len |-> len, before |-> Snapshot]
        h == Append(hist, e)
    IN IF hist = HistOff THEN HistOff
       ELSE IF Len(h) > MaxCards + 1 THEN Tail(h) ELSE h

\* an event other than a controller operation breaks the run
Forget == IF hist = HistOff THEN HistOff ELSE <<>>

\* sets the flag instead of negating it
handleFlipCardSetsTrue ==
    /\ isFlipped' = TRUE
    /\ keyHandlerLen' = KeyHandlerAfter(currentCardIndex, TRUE)
    /\ hist' = Remember("flip", 0)
    /\ UNCHANGED <<dashboard, store, studySetId, userId, currentCardIndex, authPc, route,
                   studySetQuery, flashcardsQuery, mutations, pair, ret>>

\* handleFlipCard
handleFlipCard ==
    /\ isFlipped' = ~isFlipped
    /\ keyHandlerLen' = KeyHandlerAfter(currentCardIndex, ~isFlipped)
    /\ hist' = Remember("flip", 0)
    /\ UNCHANGED <<dashboard, store, studySetId, userId, currentCardIndex, authPc, route,
                   studySetQuery, flashcardsQuery, mutations, pair, ret>>

\* moves on without turning the card back
handleNextCardKeepsFlip(len) ==
    /\ IF len = 0
       THEN UNCHANGED <<isFlipped, currentCardIndex, keyHandlerLen>>
       ELSE /\ isFlipped' = isFlipped
            /\ currentCardIndex' = NextIndex(currentCardIndex, len)
            /\ keyHandlerLen' = KeyHandlerAfter(NextIndex(currentCardIndex, len), isFlipped)
    /\ hist' = Remember("next", len)
    /\ UNCHANGED <<dashboard, store, studySetId, userId, authPc, route,
                   studySetQuery, flashcardsQuery, mutations, pair, ret>>

\* handleNextCard, run by a closure that captured a list of length len
handleNextCard(len) ==
    /\ IF len = 0
       THEN UNCHANGED <<isFlipped, currentCardIndex, keyHandlerLen>>
       ELSE /\ isFlipped' = FALSE
            /\ currentCardIndex' = NextIndex(currentCardIndex, len)
            /\ keyHandlerLen' = KeyHandlerAfter(NextIndex(currentCardIndex, len), FALSE)
    /\ hist' = Remember("next", len)
    /\ UNCHANGED <<dashboard, store, studySetId, userId, authPc, route,
                   studySetQuery, flashcardsQuery, mutations, pair, ret>>

\* handlePrevCard, run by a closure that captured a list of length len
handlePrevCard(len) ==
    /\ IF len = 0
       THEN UNCHANGED <<isFlipped, currentCardIndex, keyHandlerLen>>
       ELSE /\ isFlipped' = FALSE
            /\ currentCardIndex' = PrevIndex(currentCardIndex, len)
            /\ keyHandlerLen' = KeyHandlerAfter(PrevIndex(currentCardIndex, len), FALSE)
    /\ hist' = Remember("prev", len)
    /\ UNCHANGED <<dashboard, store, studySetId, userId, authPc, route,
                   studySetQuery, flashcardsQuery, mutations, pair, ret>>

\* the card's onClick
ClickCard == View = "browsing" /\ handleFlipCard

\* the Next / Previous buttons, disabled={flashcards.length <= 1}
ClickNext == View = "browsing" /\ cardCount > 1 /\ handleNextCard(cardCount)
ClickPrev == View = "browsing" /\ cardCount > 1 /\ handlePrevCard(cardCount)

\* handleKeyDown: ' ' | 'Enter' | 'ArrowLeft' | 'ArrowRight'
KeyFlip == Mounted /\ handleFlipCard
KeyArrowRight == Mounted /\ handleNextCard(keyHandlerLen)
KeyArrowLeft == Mounted /\ handlePrevCard(keyHandlerLen)

\* ------------------------------------------------------- auth and queries
\* how a session check ended
AuthOutcome(user, threw) ==
    IF threw THEN "threw" ELSE IF user = NoUser THEN "no-user" ELSE "done"

\* stays on the page when there is no session
CheckAuthStays(user, threw) ==
    /\ route = "page" /\ authPc = "pending"
    /\ authPc' = AuthOutcome(user, threw)
    /\ IF ~threw /\ user # NoUser
       THEN /\ userId' = user
            /\ flashcardsQuery' = [flashcardsQuery EXCEPT !.fetching = TRUE]
       ELSE UNCHANGED <<userId, flashcardsQuery>>
    /\ hist' = Forget
    /\ UNCHANGED <<dashboard, store, studySetId, currentCardIndex, isFlipped, studySetQuery,
                   route, keyHandlerLen, mutations, pair, ret>>

\* checkAuth: supabase.auth.getUser() answers a user, no user, or throws
CheckAuth(user, threw) ==
    /\ route = "page" /\ authPc = "pending"
    /\ authPc' = AuthOutcome(user, threw)
    /\ IF ~threw /\ user # NoUser
       THEN /\ userId' = user
            \* the flashcards query becomes enabled and starts its first fetch
            /\ flashcardsQuery' = [flashcardsQuery EXCEPT !.fetching = TRUE]
            /\ UNCHANGED route
       ELSE /\ route' = "/login"
            /\ UNCHANGED <<userId, flashcardsQuery>>
    /\ hist' = Forget
    /\ UNCHANGED <<dashboard, store, studySetId, currentCardIndex, isFlipped, studySetQuery,
                   keyHandlerLen, mutations, pair, ret>>

\* the study-set query (enabled from the first render) settles
StudySetFetched(failRow, failCount) ==
    /\ route = "page" /\ studySetQuery.fetching
    /\ studySetQuery' = [fetching |-> FALSE,
                         data |-> getStudySet(studySetId, failRow, failCount)]
    /\ hist' = Forget
    /\ UNCHANGED <<dashboard, store, studySetId, userId, currentCardIndex, isFlipped, authPc, route,
                   flashcardsQuery, keyHandlerLen, mutations, pair, ret>>

\* the flashcards query (first fetch, or the refetch after invalidateQueries) settles
FlashcardsFetched(failRows, failStars) ==
    /\ route = "page" /\ userId # NoUser /\ flashcardsQuery.fetching
    /\ flashcardsQuery' = [status |-> "success", fetching |-> FALSE,
                           data |-> getFlashcards(studySetId, userId, failRows, failStars)]
    /\ hist' = Forget
    /\ UNCHANGED <<dashboard, store, studySetId, userId, currentCardIndex, isFlipped, authPc, route,
                   studySetQuery, keyHandlerLen, mutations, pair, ret>>

\* -------------------------------------------------------------- dashboard
\* const { data: studySets = [], isLoading, error } = useQuery(...), and the
\* render gating of DashboardPage
DashboardView ==
    IF (dashboard.query.status = "pending" /\ dashboard.query.fetching)
         \/ dashboard.userId = NoUser THEN "loading"
    ELSE IF dashboard.query.status = "error" THEN "error"
    ELSE "ready"

\* DashboardPage.checkAuth
DashboardCheckAuth(user, threw) ==
    /\ dashboard.route = "page" /\ dashboard.authPc = "pending"
    /\ dashboard' =
          IF ~threw /\ user # NoUser
          THEN [dashboard EXCEPT !.authPc = AuthOutcome(user, threw),
                                 !.userId = user,
                                 \* the study-sets query becomes enabled and starts
                                 !.query.fetching = TRUE]
          ELSE [dashboard EXCEPT !.authPc = AuthOutcome(user, threw),
                                 !.route = "/login"]
    /\ hist' = Forget
    /\ UNCHANGED <<store, ctl, mutations, pair, ret>>

\* the study-sets query settles; getStudySets returns a list and never throws
StudySetsFetched(failQuery, failCounts) ==
    /\ dashboard.route = "page" /\ dashboard.userId # NoUser /\ dashboard.query.fetching
    /\ dashboard' = [dashboard EXCEPT !.query =
            [status |-> "success", fetching |-> FALSE,
             data |-> getStudySets(dashboard.userId, failQuery, failCounts)]]
    /\ hist' = Forget
    /\ UNCHANGED <<store, ctl, mutations, pair, ret>>

\* ------------------------------------------------------------- toggleStar
NoRet == [op |-> "none"]
NoPair == [stage |-> 0, user |-> NoUser, card |-> 0, rows0 |-> 0,
           r1 |-> "none", r2 |-> "none", rows2 |-> 0]
Calls == 1..Len(mutations)
\* no toggleStar call is in flight: a caller that awaits each call before the next
InTurn == mutations = <<>>
Without(k) == [i \in 1..(Len(mutations) - 1) |->
                  IF i < k THEN mutations[i] ELSE mutations[i + 1]]

\* a toggleStar(u, c) call starting now: alone, it opens or continues a pair of
\* calls run one after the other; overlapping another call, it is no such pair
PairAtStart(u, c) ==
    IF pair = PairOff THEN PairOff
    ELSE IF mutations # <<>> THEN NoPair
    ELSE IF pair.stage = 2 /\ pair.user = u /\ pair.card = c
         THEN [pair EXCEPT !.stage = 3]
    ELSE [NoPair EXCEPT !.stage = 1, !.user = u, !.card = c,
                        !.rows0 = starred_flashcards[u, c]]

PairAtReturn(result, after) ==
    IF pair = PairOff THEN PairOff
    ELSE IF result = "error" THEN NoPair
    ELSE IF pair.stage = 1 THEN [pair EXCEPT !.stage = 2, !.r1 = result]
    ELSE IF pair.stage = 3 THEN [pair EXCEPT !.stage = 4, !.r2 = result, !.rows2 = after]
    ELSE pair

\* toggleStar(u, c) is entered
StartToggle(u, c, page) ==
    /\ Len(mutations) < MaxInFlight
    /\ mutations' = Append(mutations,
            [pc |-> "check", user |-> u, card |-> c, existing |-> FALSE,
             checkFailed |-> FALSE, byPage |-> page])
    /\ pair' = PairAtStart(u, c)

\* handleToggleStar: starMutation.mutateAsync({userId, flashcardId: currentCard.id})
handleToggleStar ==
    /\ View = "browsing"
    /\ StartToggle(userId, Flashcards[currentCardIndex + 1].id, TRUE)
    /\ hist' = Forget
    /\ UNCHANGED <<dashboard, store, ctl, ret>>

\* .single(): data is the row when exactly one row matches, else null
Single(rows, failed) == ~failed /\ rows = 1

\* toggleStar, first store call: the existence check (its error is not read)
toggleStarCheck(k, fail) ==
    LET m == mutations[k] IN
    /\ m.pc = "check"
    /\ mutations' = [mutations EXCEPT ![k] =
            [m EXCEPT !.pc = "write",
                      !.checkFailed = (ret # RetOff /\ fail),
                      !.existing = Single(starred_flashcards[m.user, m.card], fail)]]
    /\ pair' = IF pair # PairOff /\ fail THEN NoPair ELSE pair
    /\ hist' = Forget
    /\ UNCHANGED <<dashboard, store, ctl, ret>>

\* a mutation without onSuccess
InvalidatedNever(m, result) == flashcardsQuery

\* starMutation.onSuccess: invalidateQueries(['flashcards', studySetId, userId])
Invalidated(m, result) ==
    IF m.byPage /\ result # "error" /\ Mounted
    THEN [flashcardsQuery EXCEPT !.fetching = TRUE]
    ELSE flashcardsQuery

\* toggleStar, second store call: delete when existing, else insert; then it
\* returns false / true, or throws the write's error, to its caller (the
\* mutation's onSuccess, or the catch of handleToggleStar)
toggleStarWrite(k, fail) ==
    LET m == mutations[k]
        rows == starred_flashcards[m.user, m.card]
        after == IF fail THEN rows ELSE IF m.existing THEN 0 ELSE rows + 1
        result == IF fail THEN "error" ELSE IF m.existing THEN "false" ELSE "true"
    IN
    /\ m.pc = "write"
    /\ after <= MaxRows
    /\ starred_flashcards' = [starred_flashcards EXCEPT ![m.user, m.card] = after]
    /\ mutations' = Without(k)
    /\ flashcardsQuery' = Invalidated(m, result)
    /\ pair' = PairAtReturn(result, after)
    /\ ret' = IF ret = RetOff THEN RetOff
              ELSE [op |-> "toggleStar", user |-> m.user, card |-> m.card,
                    result |-> result, checkFailed |-> m.checkFailed,
                    writeFailed |-> fail, wrote |-> ~fail]
    /\ hist' = Forget
    /\ UNCHANGED <<dashboard, study_sets, flashcards, studySetId, userId, currentCardIndex,
                   isFlipped, authPc, route, studySetQuery, keyHandlerLen>>

\* -------------------------------------------------- the store's other clients
\* a flashcard row is deleted in the remote store by another client
RemoteFlashcardDeleted(c) ==
    /\ \E r \in flashcards : r.id = c
    /\ flashcards' = {r \in flashcards : r.id # c}
    /\ hist' = Forget
    /\ ret' = IF ret = RetOff THEN RetOff ELSE NoRet
    /\ UNCHANGED <<dashboard, study_sets, starred_flashcards, ctl, mutations, pair>>

\* ------------------------------------- direct calls of the data-access module
\* toggleStar(u, c) called by a client of the module; the calls followed are
\* those of one signed-in user
CallToggleStar(u, c) ==
    /\ \A i \in Calls : mutations[i].user = u
    /\ \A v \in Users \ {u}, d \in CardIds : starred_flashcards[v, d] = 0
    /\ StartToggle(u, c, FALSE)
    /\ hist' = Forget
    /\ UNCHANGED <<dashboard, store, ctl, ret>>

\* returns true although the study-set delete failed
CallDeleteStudySetIgnoresError(sid, failCards, failSet) ==
    /\ flashcards' = IF failCards THEN flashcards
                     ELSE {r \in flashcards : r.study_set_id # sid}
    /\ study_sets' = IF failSet THEN study_sets ELSE {r \in study_sets : r.id # sid}
    /\ ret' = [op |-> "deleteStudySet", arg |-> sid, result |-> TRUE,
               failCards |-> failCards, cardsBefore |-> SelectFlashcards(sid),
               existed |-> \E r \in study_sets : r.id = sid]
    /\ hist' = Forget
    /\ UNCHANGED <<dashboard, starred_flashcards, ctl, mutations, pair>>

\* deleteStudySet(studySetId): the flashcard delete (its outcome is not read),
\* then the study-set delete, whose error makes it return false
CallDeleteStudySet(sid, failCards, failSet) ==
    /\ flashcards' = IF failCards THEN flashcards
                     ELSE {r \in flashcards : r.study_set_id # sid}
    /\ study_sets' = IF failSet THEN study_sets ELSE {r \in study_sets : r.id # sid}
    /\ ret' = [op |-> "deleteStudySet", arg |-> sid, result |-> ~failSet,
               failCards |-> failCards, cardsBefore |-> SelectFlashcards(sid),
               existed |-> \E r \in study_sets : r.id = sid]
    /\ hist' = Forget
    /\ UNCHANGED <<dashboard, starred_flashcards, ctl, mutations, pair>>

\* the count query is made once the row query has answered one row
CallGetStudySet(sid, failRow, failCount) ==
    /\ ret' = [op |-> "getStudySet", arg |-> sid,
               failed |-> failRow \/ (failCount /\ \E s \in study_sets : s.id = sid),
               result |-> getStudySet(sid, failRow, failCount)]
    /\ hist' = Forget
    /\ UNCHANGED <<dashboard, store, ctl, mutations, pair>>

\* the toggleStar call that returned latest before a read, if the read follows one
NoToggle == [user |-> NoUser, card |-> 0, result |-> "none"]
LatestToggle ==
    IF ret.op = "toggleStar"
    THEN [user |-> ret.user, card |-> ret.card, result |-> ret.result]
    ELSE IF ret.op = "getFlashcards" THEN ret.after
    ELSE NoToggle

CallGetFlashcards(sid, uid, failRows, failStars) ==
    /\ ret' = [op |-> "getFlashcards", arg |-> sid, user |-> uid,
               failed |-> failRows \/ failStars,
               result |-> getFlashcards(sid, uid, failRows, failStars),
               after |-> LatestToggle]
    /\ hist' = Forget
    /\ UNCHANGED <<dashboard, store, ctl, mutations, pair>>

\* a count query is made for each row the study-set query answered
CallGetStudySets(uid, failQuery, failCounts) ==
    /\ ret' = [op |-> "getStudySets", user |-> uid,
               failed |-> failQuery
                          \/ \E s \in study_sets : s.user_id = uid /\ s.id \in failCounts,
               result |-> getStudySets(uid, failQuery, failCounts)]
    /\ hist' = Forget
    /\ UNCHANGED <<dashboard, store, ctl, mutations, pair>>

\* ------------------------------------------------------------------ Init
\* rows the store holds when the page is opened
StoreInit ==
    /\ \E present \in {{}, {1}} :
          /\ study_sets = {[id |-> s, user_id |-> 1, updated_at |-> s] : s \in present}
          /\ \E n \in 0..(IF present = {} THEN 0 ELSE MaxCards) :
                flashcards = {[id |-> c, study_set_id |-> 1, position |-> n - c] : c \in 1..n}
    /\ starred_flashcards = [u \in Users, c \in CardIds |-> 0]

\* StudySetPage after its first render
PageInit ==
    /\ studySetId = 1
    /\ userId = NoUser
    /\ currentCardIndex = 0
    /\ isFlipped = FALSE
    /\ authPc = "pending"
    /\ route = "page"
    /\ studySetQuery = [fetching |-> TRUE, data |-> None]
    /\ flashcardsQuery = [status |-> "pending", fetching |-> FALSE, data |-> <<>>]
    /\ keyHandlerLen = 0
    /\ mutations = <<>>

\* DashboardPage after its first render
DashboardInit ==
    dashboard = [userId |-> NoUser, authPc |-> "pending", route |-> "page",
                 query |-> [status |-> "pending", fetching |-> FALSE, data |-> <<>>]]

Init ==
    /\ StoreInit
    /\ PageInit
    /\ DashboardInit
    /\ hist = HistOff
    /\ pair = PairOff
    /\ ret = RetOff

Next ==
    \/ ClickCard
    \/ ClickNext
    \/ ClickPrev
    \/ KeyFlip
    \/ KeyArrowRight
    \/ KeyArrowLeft
    \/ \E u \in Users \cup {NoUser}, threw \in BOOLEAN : CheckAuth(u, threw)
    \/ \E f1, f2 \in BOOLEAN : StudySetFetched(f1, f2)
    \/ \E f1, f2 \in BOOLEAN : FlashcardsFetched(f1, f2)
    \/ handleToggleStar
    \/ \E k \in Calls, f \in BOOLEAN : toggleStarCheck(k, f)
    \/ \E k \in Calls, f \in BOOLEAN : toggleStarWrite(k, f)
    \/ \E c \in CardIds : RemoteFlashcardDeleted(c)

Spec == Init /\ [][Next]_vars

\* the controller alone, its operations observed: no star toggle, no other client
InitNav ==
    /\ StoreInit
    /\ PageInit
    /\ DashboardInit
    /\ hist = <<>>
    /\ pair = PairOff
    /\ ret = RetOff

NextNav ==
    \/ ClickCard
    \/ ClickNext
    \/ ClickPrev
    \/ KeyFlip
    \/ KeyArrowRight
    \/ KeyArrowLeft
    \/ \E u \in Users \cup {NoUser}, threw \in BOOLEAN : CheckAuth(u, threw)
    \/ \E f1, f2 \in BOOLEAN : StudySetFetched(f1, f2)
    \/ \E f1, f2 \in BOOLEAN : FlashcardsFetched(f1, f2)

SpecNav == InitNav /\ [][NextNav]_vars

\* the data-access module called directly, its calls observed
StoreInitData ==
    /\ \E owner \in [SetIds -> Users \cup {NoUser}] :
       \E of \in [CardIds -> {x \in SetIds : owner[x] # NoUser} \cup {0}] :
       \E pos \in {f \in [CardIds -> Positions] : \A a, b \in CardIds : f[a] = f[b] => a = b} :
          /\ study_sets = {[id |-> x, user_id |-> owner[x], updated_at |-> 3 - x] :
                             x \in {y \in SetIds : owner[y] # NoUser}}
          /\ flashcards = {[id |-> c, study_set_id |-> of[c], position |-> pos[c]] :
                             c \in {d \in CardIds : of[d] # 0}}
    /\ starred_flashcards = [u \in Users, c \in CardIds |-> 0]

InitData ==
    /\ StoreInitData
    /\ PageInit
    /\ DashboardInit
    /\ hist = HistOff
    /\ pair = PairOff
    /\ ret = NoRet

NextData ==
    \/ \E sid \in SetIds, f1, f2 \in BOOLEAN : CallDeleteStudySet(sid, f1, f2)
    \/ \E sid \in SetIds, f1, f2 \in BOOLEAN : CallGetStudySet(sid, f1, f2)
    \/ \E sid \in SetIds, uid \in Users \cup {NoUser}, f1, f2 \in BOOLEAN :
          CallGetFlashcards(sid, uid, f1, f2)
    \/ \E uid \in Users, f \in BOOLEAN, fc \in SUBSET SetIds : CallGetStudySets(uid, f, fc)
    \/ \E c \in CardIds : RemoteFlashcardDeleted(c)

SpecData == InitData /\ [][NextData]_vars

\* toggleStar called directly by any client, its calls observed
InitStar ==
    /\ StoreInit
    /\ PageInit
    /\ DashboardInit
    /\ hist = HistOff
    /\ pair = NoPair
    /\ ret = NoRet

NextStar ==
    \/ \E u \in Users, c \in CardIds : CallToggleStar(u, c)
    \/ \E k \in Calls, f \in BOOLEAN : toggleStarCheck(k, f)
    \/ \E k \in Calls, f \in BOOLEAN : toggleStarWrite(k, f)

SpecStar == InitStar /\ [][NextStar]_vars

\* toggleStar and getFlashcards called directly by one client, its calls observed
InitList ==
    /\ StoreInit
    /\ PageInit
    /\ DashboardInit
    /\ hist = HistOff
    /\ pair = PairOff
    /\ ret = NoRet

NextList ==
    \/ \E u \in Users, c \in CardIds : InTurn /\ CallToggleStar(u, c)
    \/ \E k \in Calls, f \in BOOLEAN : toggleStarCheck(k, f)
    \/ \E k \in Calls, f \in BOOLEAN : toggleStarWrite(k, f)
    \/ \E sid \in SetIds, uid \in Users \cup {NoUser}, f1, f2 \in BOOLEAN :
          InTurn /\ CallGetFlashcards(sid, uid, f1, f2)

SpecList == InitList /\ [][NextList]_vars

\* the two page controllers, from mount to their first loaded view
NextAuth ==
    \/ \E u \in Users \cup {NoUser}, threw \in BOOLEAN : CheckAuth(u, threw)
    \/ \E f1, f2 \in BOOLEAN : StudySetFetched(f1, f2)
    \/ \E f1, f2 \in BOOLEAN : FlashcardsFetched(f1, f2)
    \/ \E u \in Users \cup {NoUser}, threw \in BOOLEAN : DashboardCheckAuth(u, threw)
    \/ \E f \in BOOLEAN, fc \in SUBSET SetIds : StudySetsFetched(f, fc)

SpecAuth == Init /\ [][NextAuth]_vars

\* the study page and its star button, the store answering the page's reads
NextStarPage ==
    \/ \E u \in Users \cup {NoUser}, threw \in BOOLEAN : CheckAuth(u, threw)
    \/ \E f1, f2 \in BOOLEAN : StudySetFetched(f1, f2)
    \/ FlashcardsFetched(FALSE, FALSE)
    \/ handleToggleStar
    \/ \E k \in Calls, f \in BOOLEAN : toggleStarCheck(k, f)
    \/ \E k \in Calls, f \in BOOLEAN : toggleStarWrite(k, f)

InitStarPage ==
    /\ StoreInit
    /\ PageInit
    /\ DashboardInit
    /\ hist = HistOff
    /\ pair = PairOff
    /\ ret = NoRet

SpecStarPage == InitStarPage /\ [][NextStarPage]_vars

\* the study page driven by the keyboard and the star button, its operations
\* observed; a re-fetch follows each star toggle that succeeded
NextKeys ==
    \/ KeyFlip
    \/ KeyArrowRight
    \/ KeyArrowLeft
    \/ \E u \in Users \cup {NoUser}, threw \in BOOLEAN : CheckAuth(u, threw)
    \/ \E f1, f2 \in BOOLEAN : StudySetFetched(f1, f2)
    \/ \E f1, f2 \in BOOLEAN : FlashcardsFetched(f1, f2)
    \/ InTurn /\ handleToggleStar
    \/ \E k \in Calls, f \in BOOLEAN : toggleStarCheck(k, f)
    \/ \E k \in Calls, f \in BOOLEAN : toggleStarWrite(k, f)

SpecKeys == InitNav /\ [][NextKeys]_vars

\* ================================================================ claims
\* C1: whenever the controller holds at least one flashcard, currentCardIndex
\* lies in [0, cardCount), also after a re-fetch that returns a list of another
\* length.
C1_IndexInRange ==
    cardCount >= 1 => (0 <= currentCardIndex /\ currentCardIndex < cardCount)

\* C6: the starred_flashcards collection holds at most one row for each
\* (user, flashcard) pair, under any interleaving of the store calls of
\* toggleStar invocations.
C6_AtMostOneRow ==
    \A u \in Users, c \in CardIds : starred_flashcards[u, c] <= 1

\* C7: at most one toggleStar request issued by the controller for a given
\* flashcard is in flight at any moment.
C7_OneToggleInFlightPerCard ==
    \A i, j \in Calls :
        (i # j /\ mutations[i].byPage /\ mutations[j].byPage)
            => mutations[i].card # mutations[j].card

\* ---- the latest controller operations (SpecNav)
HistLen == Len(hist)
HistLast == hist[HistLen]
\* the latest n operations all read the held list, which has L cards
LatestOn(n, L) ==
    /\ HistLen >= n
    /\ \A i \in (HistLen - n + 1)..HistLen :
          hist[i].len = L /\ Len(hist[i].before.flashcards) = L
LatestOps(ops) ==
    /\ HistLen >= Len(ops)
    /\ \A i \in 1..Len(ops) : hist[HistLen - Len(ops) + i].op = ops[i]
StartOf(n) == hist[HistLen - n + 1].before.currentCardIndex

FlipStep == hist' # hist /\ hist' # <<>> /\ hist'[Len(hist')].op = "flip"

\* C3: flip() negates isFlipped and leaves currentCardIndex, the held list,
\* the user identity and the remote store as they were; two flip() calls in a
\* row restore the state the first one started from.
C3_FlipOnlyFlips ==
    /\ [][FlipStep => /\ isFlipped' = ~isFlipped
                      /\ UNCHANGED <<currentCardIndex, flashcardsQuery, userId, store>>]_vars
    /\ [](LatestOps(<<"flip", "flip">>) => Snapshot = hist[HistLen - 1].before)

\* two flips in a row on the second card of a loaded list, flipped before and after
C3_Witness ==
    /\ LatestOps(<<"flip", "flip">>)
    /\ isFlipped /\ currentCardIndex = 1 /\ cardCount = 2

\* ---- C4
NavLast == HistLen >= 1 /\ HistLast.op \in {"next", "prev"}

\* C4 as claimed: after every next() or previous() call isFlipped is false.
C4_Original == NavLast => ~isFlipped

\* C4 amended: after every next() or previous() call that found at least one
\* flashcard in the list it read, isFlipped is false whatever it was before; a
\* call that found none leaves isFlipped and currentCardIndex as they were.
C4_NavigationResetsFlip ==
    NavLast =>
        /\ HistLast.len >= 1 => ~isFlipped
        /\ HistLast.len = 0 => /\ isFlipped = HistLast.before.isFlipped
                               /\ currentCardIndex = HistLast.before.currentCardIndex

\* a navigation on a non-empty list that started from a flipped card
C4_Witness ==
    /\ NavLast /\ HistLast.len >= 1
    /\ HistLast.before.isFlipped /\ ~isFlipped

\* ---- toggleStar called directly (SpecStar)
\* C5 as claimed: two toggleStar(U, F) calls run one after the other, with no
\* other writer and no store failure, return opposite booleans (true first
\* when F was unstarred, false first when it was starred), leave the rows of
\* (U, F) as they were before the first call, and leave 0 or 1 such rows.
C5_Original ==
    /\ pair.stage >= 2 => (pair.r1 = "true" <=> pair.rows0 = 0)
    /\ pair.stage = 4 => /\ pair.r1 # pair.r2
                         /\ pair.rows2 = pair.rows0
                         /\ pair.rows2 <= 1

\* C8 as claimed: when a store call of toggleStar fails (the existence check,
\* the delete or the insert) the invocation raises the error, returns neither
\* true nor false, and writes nothing after the failed call.
C8_Original ==
    (ret.op = "toggleStar" /\ (ret.checkFailed \/ ret.writeFailed))
        => (ret.result = "error" /\ ~(ret.checkFailed /\ ret.wrote))

\* ---- deleteStudySet and the reads called directly (SpecData)
RowsReferencing(S) == {r \in flashcards : r.study_set_id = S}
Exists(S) == \E s \in study_sets : s.id = S
DeleteReturnedTrue == ret.op = "deleteStudySet" /\ ret.result
GetStudySetGivesNone(S) == \A f1, f2 \in BOOLEAN : getStudySet(S, f1, f2) = None

Listed(c) == \E i \in 1..Len(ret.result) : ret.result[i].id = c
FlagOf(c) == (CHOOSE r \in {ret.result[i] : i \in 1..Len(ret.result)} : r.id = c).is_starred
ReadAnswered == ret.op = "getFlashcards" /\ ~ret.failed

C12_Original ==
    (ret.op = "getStudySets" /\ ret.failed) => ret.result = <<>>

\* C13 as claimed: getStudySet(id) returns none whenever no StudySet row has
\* that identifier or a store call it makes fails (the row fetch or the
\* flashcard count query), and otherwise the row annotated with its flashcard
\* count.
C13_Original ==
    ret.op = "getStudySet" =>
        IF ~Exists(ret.arg) \/ ret.failed
        THEN ret.result = None
        ELSE /\ ret.result # None
             /\ ret.result[1].id = ret.arg
             /\ ret.result[1].flashcard_count = Cardinality(RowsReferencing(ret.arg))

\* ---- the session check of the two page controllers (SpecAuth)
\* C14 as claimed: in both page controllers no read query (listStudySets,
\* getStudySet, listFlashcards) is in flight through the data-access module
\* unless the session check has completed and returned a user identity.
C14_Original ==
    /\ (studySetQuery.fetching \/ flashcardsQuery.fetching)
          => (authPc = "done" /\ userId # NoUser)
    /\ dashboard.query.fetching
          => (dashboard.authPc = "done" /\ dashboard.userId # NoUser)

\* C15: in both page controllers, when the session check returns no user or
\* fails with an error, the controller redirects to the login entry point,
\* never records a user identity, never issues listStudySets or listFlashcards,
\* and never leaves the loading view for the ready, empty or browsing view.
C15_NoSessionRedirects ==
    /\ authPc \in {"no-user", "threw"} =>
          /\ route = "/login"
          /\ userId = NoUser
          /\ ~flashcardsQuery.fetching /\ flashcardsQuery.status = "pending"
          /\ Rendered = "loading"
    /\ dashboard.authPc \in {"no-user", "threw"} =>
          /\ dashboard.route = "/login"
          /\ dashboard.userId = NoUser
          /\ ~dashboard.query.fetching /\ dashboard.query.status = "pending"
          /\ DashboardView = "loading"

\* the study page's session check threw after its study-set fetch had found
\* the set, and the dashboard's session check returned no user
C15_Witness ==
    /\ authPc = "threw" /\ studySetQuery.data # None
    /\ dashboard.authPc = "no-user"

\* ---- keyboard input (SpecNav)
\* C16 as claimed: the latest controller operation, a key press included, left
\* the state that flip(), next() or previous() gives when evaluated against
\* the flashcard list, currentCardIndex and isFlipped held when it ran.
C16_Original ==
    HistLen >= 1 =>
        LET b == HistLast.before
            L == Len(b.flashcards)
        IN CASE HistLast.op = "flip" ->
                   isFlipped = ~b.isFlipped /\ currentCardIndex = b.currentCardIndex
             [] HistLast.op \in {"next", "prev"} /\ L = 0 ->
                   isFlipped = b.isFlipped /\ currentCardIndex = b.currentCardIndex
             [] HistLast.op = "next" /\ L > 0 ->
                   ~isFlipped /\ currentCardIndex = NextIndex(b.currentCardIndex, L)
             [] HistLast.op = "prev" /\ L > 0 ->
                   ~isFlipped /\ currentCardIndex = PrevIndex(b.currentCardIndex, L)

\* ---- the star button of the study page (SpecStarPage)
\* a toggleStar invocation returns, by throwing or with a boolean
ToggleReturns == Len(mutations') < Len(mutations)
ToggleFailed == ToggleReturns /\ ret'.result = "error"
ToggleSucceeded == ToggleReturns /\ ret'.result \in {"true", "false"}
Quiescent == mutations = <<>> /\ ~flashcardsQuery.fetching
ShownFlag(i) == Flashcards[i].is_starred
RowPresent(i) == starred_flashcards[userId, Flashcards[i].id] > 0

C18_Original ==
    View = "not-found" => (~studySetQuery.fetching /\ studySetQuery.data = None)

\* ---- navigation on an empty list (SpecKeys)
\* C19 as claimed: when the controller holds zero flashcards, next() and
\* previous() are no-ops: currentCardIndex and isFlipped both keep their prior
\* values and no store call is made.
C19_Original ==
    (NavLast /\ HistLast.before.flashcards = <<>>) =>
        /\ currentCardIndex = HistLast.before.currentCardIndex
        /\ isFlipped = HistLast.before.isFlipped
        /\ store = HistLast.before.store
        /\ <<mutations, studySetQuery.fetching, flashcardsQuery.fetching>>
              = HistLast.before.inFlight

====
